---- MODULE Spec2Model ----
(***************************************************************************)
(* Model of @ices/use-loader (src/src/index.ts, lines 1-478): findLoader,  *)
(* addLoader, addLoaderBefore, addLoaderAfter over a webpack rule tree.    *)
(*                                                                         *)
(* Arrays are JavaScript objects with identity: the model keeps them in a  *)
(* heap (array id -> sequence of elements). Rule nodes are never changed   *)
(* by the library, so they are values carrying an id (their identity) and  *)
(* the ids of the arrays they own.                                         *)
(***************************************************************************)
EXTENDS Integers, Sequences, FiniteSets, TLC

VARIABLES heap,     \* array id -> contents (every array the program can reach)
          config,   \* the Configuration object: module field and module.rules
          call,     \* the call made last (operation and arguments)
          ret,      \* its outcome: the records returned, the error thrown
          pre       \* heap and config as they were when the call was made

vars == <<heap, config, call, ret, pre>>

(***************************************************************************)
(* Bounds of the model.                                                    *)
(***************************************************************************)
MaxRules == 2   \* longest top-level rule list of an initial tree
MaxUse == 2     \* longest `use` array of an initial tree

(***************************************************************************)
(* Strings that name loaders.  A string is modelled by its structure: is   *)
(* it rooted, which separator it is written with, its components.  The     *)
(* empty string has no component and is not rooted.  `path` follows        *)
(* path.win32, where both separators delimit components.                   *)
(***************************************************************************)
Str(abs, sep, comps) == [abs |-> abs, sep |-> sep, comps |-> comps]

EmptyStr == Str(FALSE, "/", <<>>)

Bare(name) == Str(FALSE, "/", <<name>>)

\* String.prototype.toLowerCase on one component.
LowerComp(c) ==
  CASE c = "CWD" -> "cwd"
    [] c = "X" -> "x"
    [] c = "INDEX.JS" -> "index.js"
    [] OTHER -> c

\* x.replace(/\\/g, '/').toLowerCase()
NormalizePath(x) ==
  Str(x.abs, "/", [i \in DOMAIN x.comps |-> LowerComp(x.comps[i])])

\* isSamePath
isSamePath(x, y) == NormalizePath(x) = NormalizePath(y)

isAbsolute(p) == p.abs

\* path.dirname: the root is its own parent.
dirname(p) ==
  IF Len(p.comps) = 0 THEN p
  ELSE Str(p.abs, p.sep, SubSeq(p.comps, 1, Len(p.comps) - 1))

\* path.basename: the last component, '' when there is none.
basename(p) == IF Len(p.comps) = 0 THEN "" ELSE p.comps[Len(p.comps)]

\* !s for a string s.
Falsy(s) == Len(s.comps) = 0 /\ ~s.abs

(***************************************************************************)
(* The environment: working directory, package manifests on disk, and      *)
(* what require.resolve finds.                                             *)
(***************************************************************************)
cwd == Str(TRUE, "/", <<"cwd">>)

NM == <<"cwd", "node_modules">>

pXmain == Str(TRUE, "/", NM \o <<"x", "index.js">>)
pXcase == Str(TRUE, "\\", <<"CWD", "node_modules", "X", "INDEX.JS">>)
pXother == Str(TRUE, "/", NM \o <<"x", "lib", "other.js">>)
pXdup == Str(TRUE, "/", <<"cwd", "sub", "node_modules", "x", "index.js">>)
pYmain == Str(TRUE, "/", NM \o <<"y", "index.js">>)
pZmain == Str(TRUE, "/", NM \o <<"z", "index.js">>)
pZother == Str(TRUE, "/", NM \o <<"z", "other.js">>)
pApp == Str(TRUE, "/", <<"cwd", "src", "index.js">>)

\* Directories holding a package.json, with the name it declares.
Manifests ==
  { [dir |-> <<"cwd">>, name |-> Bare("app")],
    [dir |-> NM \o <<"x">>, name |-> Bare("x")],
    [dir |-> <<"cwd", "sub", "node_modules", "x">>, name |-> Bare("x")],
    [dir |-> NM \o <<"y">>, name |-> Bare("y")] }

\* fs.existsSync(path.join(dir, 'package.json')) on a case-insensitive disk.
hasManifest(dir) ==
  \E m \in Manifests : m.dir = NormalizePath(dir).comps /\ dir.abs

\* require(path.join(dir, 'package.json')).name
manifestName(dir) ==
  (CHOOSE m \in Manifests : m.dir = NormalizePath(dir).comps).name

\* require.resolve(specifier, {paths: [cwd]}); EmptyStr stands for a throw.
requireResolve(s) ==
  CASE s = Bare("x") -> pXmain
    [] s = Bare("y") -> pYmain
    [] OTHER -> EmptyStr

\* resolveLoaderPath
resolveLoaderPath(loaderPath) ==
  IF ~isAbsolute(loaderPath) THEN requireResolve(loaderPath) ELSE loaderPath

\* The while loop of getPackageName: `file` is the directory just reached.
RECURSIVE walkUp(_)
walkUp(file) ==
  IF hasManifest(file) THEN file
  ELSE IF file = cwd \/ basename(file) = "node_modules" THEN EmptyStr
  ELSE walkUp(dirname(file))

\* getPackageName
getPackageName(file) ==
  IF Falsy(file) \/ ~isAbsolute(file) THEN EmptyStr
  ELSE LET dir == walkUp(dirname(file))
       IN IF Falsy(dir) \/ dirname(dir) = dir THEN EmptyStr
          ELSE manifestName(dir)

\* The mutant drops the test that both names are non-empty.
isSamePackageNoTruthy(x, y) ==
  \/ x = y
  \/ /\ basename(x) = basename(y)
     /\ LET xName == getPackageName(x)
            yName == getPackageName(y)
        IN ~Falsy(xName) /\ ~Falsy(yName) /\ xName = yName

\* isSamePackage: called with the two package names.
isSamePackage(x, y) ==
  \/ ~Falsy(x) /\ ~Falsy(y) /\ x = y
  \/ /\ basename(x) = basename(y)
     /\ LET xName == getPackageName(x)
            yName == getPackageName(y)
        IN ~Falsy(xName) /\ ~Falsy(yName) /\ xName = yName

(***************************************************************************)
(* Numbers a position handler can return.  A number is NaN or m * 10^e;    *)
(* an integer n is IntNum(n).  Number-to-string conversion is modelled far    *)
(* enough to tell whether the text holds a '.' (ECMAScript                 *)
(* Number::toString).                                                      *)
(***************************************************************************)
Num(m, e) == [nan |-> FALSE, m |-> m, e |-> e]

NaN == [nan |-> TRUE, m |-> 0, e |-> 0]

IntNum(n) == Num(n, 0)

Abs(n) == IF n < 0 THEN -n ELSE n

RECURSIVE Pow10(_)
Pow10(k) == IF k <= 0 THEN 1 ELSE 10 * Pow10(k - 1)

\* The decimal digits of m without trailing zeros, and the exponent moved along.
RECURSIVE Canonical(_)
Canonical(n) ==
  IF n.m # 0 /\ n.m % 10 = 0 THEN Canonical(Num(n.m \div 10, n.e + 1)) ELSE n

RECURSIVE DigitCount(_)
DigitCount(m) == IF Abs(m) < 10 THEN 1 ELSE 1 + DigitCount(Abs(m) \div 10)

\* /\./.test(`${pos}`): does the decimal text of the number hold a dot.
\* With k digits and the point after digit n: plain digits when k <= n <= 21,
\* a dot inside or after "0." when -6 < n < k, else exponent notation, which
\* has a dot only when there is more than one digit.
hasDot(pos) ==
  LET c == Canonical(pos)
      k == DigitCount(c.m)
      n == k + c.e
  IN IF pos.nan \/ c.m = 0 THEN FALSE
     ELSE IF k <= n /\ n <= 21 THEN FALSE
     ELSE IF -6 < n /\ n <= 21 THEN TRUE
     ELSE k > 1

\* pos < n and pos > n for an integer n (false for NaN).
numLess(pos, n) ==
  /\ ~pos.nan
  /\ pos.m * Pow10(pos.e) < n * Pow10(-pos.e)

numGreater(pos, n) ==
  /\ ~pos.nan
  /\ pos.m * Pow10(pos.e) > n * Pow10(-pos.e)

isInteger(pos) == ~pos.nan /\ (Canonical(pos).m = 0 \/ Canonical(pos).e >= 0)

\* ToIntegerOrInfinity, as Array.prototype.splice applies it to its start.
toInteger(pos) ==
  IF pos.nan THEN 0
  ELSE IF pos.e >= 0 THEN pos.m * Pow10(pos.e)
  ELSE IF pos.m >= 0 THEN pos.m \div Pow10(-pos.e)
  ELSE -((-pos.m) \div Pow10(-pos.e))

MinusOne == IntNum(0 - 1)

\* pos !== -1
isMinusOne(pos) == ~pos.nan /\ Canonical(pos) = MinusOne

(***************************************************************************)
(* Position handlers (PositionHandler): the two the library defines, the   *)
(* one of the README, and handlers returning a fixed number.               *)
(***************************************************************************)
\* (x) => (x === -1 ? 0 : x)                      addLoaderBefore
beforeHandler(index, length) == IF index = -1 THEN IntNum(0) ELSE IntNum(index)

\* (...args) => (args[0] === -1 ? args[1] : args[0] + 1)      addLoaderAfter
afterHandler(index, length) ==
  IF index = -1 THEN IntNum(length) ELSE IntNum(index + 1)

\* handler(index, length, isUseItem, isOneOf)
applyHandler(h, index, length, isUseItem, isOneOf) ==
  CASE h.kind = "before" -> beforeHandler(index, length)
    [] h.kind = "after" -> afterHandler(index, length)
    [] h.kind = "next" -> IntNum(index + 1)
    [] h.kind = "length" -> IntNum(length)
    [] h.kind = "rulesOnly" -> IF isUseItem THEN MinusOne ELSE IntNum(index)
    [] h.kind = "const" -> h.value

UsageError == "Error"

\* The test of getPosition that throws.
rejectsPosition(pos, length) ==
  pos.nan \/ hasDot(pos) \/ numLess(pos, -1) \/ numGreater(pos, length)

\* getPosition: the position, or the error naming the range -1 .. length.
getPosition(h, index, length, isUseItem, isOneOf) ==
  LET checked(pos) ==
        [err |-> IF rejectsPosition(pos, length) THEN UsageError ELSE "",
         lo |-> -1, hi |-> length, pos |-> pos]
  IN checked(applyHandler(h, index, length, isUseItem, isOneOf))

(***************************************************************************)
(* JavaScript values of the rule tree.  `t` tells the kind of value.  A     *)
(* rule node is an object with an id (its identity); an array held by the   *)
(* tree is a reference into the heap; an array literal handed in as a new   *)
(* entry carries its items.                                                 *)
(***************************************************************************)
Undef == [t |-> "undefined"]
Null == [t |-> "null"]
S(str) == [t |-> "string", s |-> str]
Fn == [t |-> "function"]
RegExp == [t |-> "regexp"]
Number == [t |-> "number"]
ArrRef(id) == [t |-> "array", ref |-> id]
ArrLit(items) == [t |-> "array", items |-> items]
\* A RuleSetLoader: {loader, options}.
UseObj(loader) == [t |-> "object", loader |-> loader]

\* A RuleSetRule.
Rule(id, loader, use, type, test, oneOf, rules) ==
  [t |-> "object", id |-> id, loader |-> loader, use |-> use, loaders |-> Undef,
   type |-> type, test |-> test, oneOf |-> oneOf, rules |-> rules]

\* o.f for any value o: undefined when o has no such property.
Get(o, f) == IF f \in DOMAIN o THEN o[f] ELSE Undef

\* typeof v
typeOf(v) ==
  CASE v.t \in {"null", "array", "regexp", "object"} -> "object"
    [] OTHER -> v.t

isArray(v) == v.t = "array"

\* !v : undefined, null and '' are falsy; the model has no 0, false or NaN value.
isFalsy(v) == v.t \in {"undefined", "null"} \/ (v.t = "string" /\ Falsy(v.s))

\* The elements of an array value.
Elems(h, v) == IF "ref" \in DOMAIN v THEN h[v.ref] ELSE v.items

NoParent == [t |-> "null"]

(***************************************************************************)
(* hasRuleConditions                                                       *)
(***************************************************************************)
\* isCondition: typeof 'object' answers before Array.isArray is asked.
isCondition(item) ==
  IF isFalsy(item) THEN FALSE
  ELSE typeOf(item) \in {"string", "function", "object"}

hasRuleConditions(rule) ==
  \/ isCondition(Get(rule, "test"))
  \/ isCondition(Get(rule, "include"))
  \/ isCondition(Get(rule, "exclude"))
  \/ isCondition(Get(rule, "resourceQuery"))
  \/ isCondition(Get(rule, "resource"))
  \/ isCondition(Get(rule, "issuer"))
  \/ isCondition(Get(rule, "compiler"))
  \/ isCondition(Get(rule, "type"))

(***************************************************************************)
(* Matchers.  A match specification is a string, a function or neither; a  *)
(* function is one of a few predicates over the MatchParameter.            *)
(***************************************************************************)
\* The predicate findLoader compiles from a string (src lines 87-91).
stringMatcher(match, loader, name) ==
  LET loaderPath == resolveLoaderPath(match)
      loaderName == getPackageName(loaderPath)
  IN /\ loader.t = "string"
     /\ isSamePath(loaderPath, loader.s) \/ isSamePackage(loaderName, name)

\* matcher(item) for the caller's matcher or the compiled one.
runMatcher(match, item) ==
  CASE match.kind = "string" -> stringMatcher(match.s, item.loader, item.name)
    [] match.kind = "all" -> TRUE
    [] match.kind = "named" -> item.name = match.s
    [] match.kind = "useItems" -> item.isUseItem /\ item.name = match.s

\* The FindMatcher findLoader hands to findLoaderRule (src lines 98-106).
findMatcher(match, item) ==
  LET absolutePath ==
        IF item.loader.t = "string" THEN S(resolveLoaderPath(item.loader.s))
        ELSE Undef
      name ==
        IF absolutePath.t = "string" /\ ~Falsy(absolutePath.s)
        THEN getPackageName(absolutePath.s) ELSE EmptyStr
  IN runMatcher(match, [item EXCEPT !.loader = absolutePath] @@ [name |-> name])

\* parentMatch(rule, parent) for a gate that accepts the nodes of g.accept.
parentMatch(g, rule, parent) == rule.id \in g.accept

(***************************************************************************)
(* matchRuleSet                                                            *)
(***************************************************************************)
\* The mutant never sets the branch flag.
ItemNotOneOf(rule, parent, index, loader, isUseItem, isOneOf, siblings) ==
  [rule |-> rule.id, parent |-> IF parent.t = "null" THEN 0 ELSE parent.id,
   index |-> index,
   loader |-> loader, isUseItem |-> isUseItem, isOneOf |-> FALSE,
   siblings |-> siblings]

Item(rule, parent, index, loader, isUseItem, isOneOf, siblings) ==
  [rule |-> rule.id, parent |-> IF parent.t = "null" THEN 0 ELSE parent.id,
   index |-> index,
   loader |-> loader, isUseItem |-> isUseItem, isOneOf |-> isOneOf,
   siblings |-> siblings]

Keep(match, item) == IF findMatcher(match, item) THEN <<item>> ELSE <<>>

\* The loop over a `use` array (src lines 369-400); index counts from 0.
RECURSIVE matchUseItems(_, _, _, _, _, _)
matchUseItems(h, use, index, match, rule, parent) ==
  IF index >= Len(h[use.ref]) THEN <<>>
  ELSE LET useItem == h[use.ref][index + 1]
           found ==
             CASE typeOf(useItem) = "string" ->
                    Keep(match, Item(rule, parent, index, useItem,
                                     TRUE, FALSE, use.ref))
               [] typeOf(useItem) = "object" ->
                    Keep(match, Item(rule, parent, index, Get(useItem, "loader"),
                                     TRUE, FALSE, use.ref))
               [] OTHER -> <<>>
       IN found \o matchUseItems(h, use, index + 1, match, rule, parent)

\* The mutant reports the branch flag for a single identifier as false.
stringUseItemNoOneOf(use, siblings, rule, parent, index, isOneOf) ==
  Item(rule, parent, index,
       IF Get(rule, "type") = use THEN Undef ELSE use,
       FALSE, FALSE, siblings)

\* The record for a single identifier (src lines 403-404).
stringUseItem(use, siblings, rule, parent, index, isOneOf) ==
  Item(rule, parent, index,
       IF Get(rule, "type") = use THEN Undef ELSE use,
       FALSE, isOneOf, siblings)

matchRuleSet(h, use, siblings, match, rule, parent, index, isOneOf) ==
  IF isFalsy(use) \/ typeOf(use) = "function" THEN <<>>
  ELSE IF isArray(use) THEN matchUseItems(h, use, 0, match, rule, parent)
  ELSE IF typeOf(use) = "string"
    THEN Keep(match, stringUseItem(use, siblings, rule, parent, index, isOneOf))
  ELSE IF typeOf(use) = "object"
    THEN Keep(match, Item(rule, parent, index, Get(use, "loader"),
                          FALSE, isOneOf, siblings))
  ELSE <<>>

(***************************************************************************)
(* findLoaderRule                                                          *)
(***************************************************************************)
hasList(h, v) == isArray(v) /\ Len(Elems(h, v)) > 0

\* The mutant consults the gate for nodes with a oneOf list only.
gateSkipsOneOfOnly(h, rule, g, parent) ==
  /\ hasList(h, Get(rule, "oneOf"))
  /\ g.kind = "function"
  /\ hasRuleConditions(rule)
  /\ ~parentMatch(g, rule, parent)

\* Lines 306-310: the gate is asked and answers no, so the node is skipped.
gateSkips(h, rule, g, parent) ==
  /\ hasList(h, Get(rule, "oneOf")) \/ hasList(h, Get(rule, "rules"))
  /\ g.kind = "function"
  /\ hasRuleConditions(rule)
  /\ ~parentMatch(g, rule, parent)

\* Lines 312-314: the four invocation fields, in this order.
scanFields(h, rules, match, rule, parent, index, isOneOf) ==
  matchRuleSet(h, Get(rule, "loader"), rules, match, rule, parent, index, isOneOf)
  \o matchRuleSet(h, Get(rule, "use"), rules, match, rule, parent, index, isOneOf)
  \o matchRuleSet(h, Get(rule, "loaders"), rules, match, rule, parent, index, isOneOf)
  \o matchRuleSet(h, Get(rule, "type"), rules, match, rule, parent, index, isOneOf)

RECURSIVE findLoaderRuleFrom(_, _, _, _, _, _, _)

\* findLoaderRule(rules, match, parentMatch, parent, isOneOf); rules is an array id.
findLoaderRule(h, rules, match, g, parent, isOneOf) ==
  findLoaderRuleFrom(h, rules, 0, match, g, parent, isOneOf)

\* The mutant lets the gate stop the recursion only: a rejected node's own
\* fields are still scanned.
findLoaderRuleFromScanning(h, rules, index, match, g, parent, isOneOf) ==
  IF index >= Len(h[rules]) THEN <<>>
  ELSE LET rule == h[rules][index + 1]
           rest == findLoaderRuleFrom(h, rules, index + 1, match, g, parent, isOneOf)
           open == ~gateSkips(h, rule, g, parent)
       IN IF isFalsy(rule) THEN rest
          ELSE scanFields(h, rules, match, rule, parent, index, isOneOf)
               \o (IF open /\ hasList(h, Get(rule, "oneOf"))
                   THEN findLoaderRule(h, rule.oneOf.ref, match, g, rule, TRUE)
                   ELSE <<>>)
               \o (IF open /\ hasList(h, Get(rule, "rules"))
                   THEN findLoaderRule(h, rule.rules.ref, match, g, rule, FALSE)
                   ELSE <<>>)
               \o rest

\* The mutant recurses into the rules list before the oneOf list.
findLoaderRuleFromRulesFirst(h, rules, index, match, g, parent, isOneOf) ==
  IF index >= Len(h[rules]) THEN <<>>
  ELSE LET rule == h[rules][index + 1]
           rest == findLoaderRuleFrom(h, rules, index + 1, match, g, parent, isOneOf)
       IN IF isFalsy(rule) THEN rest
          ELSE IF gateSkips(h, rule, g, parent) THEN rest
          ELSE scanFields(h, rules, match, rule, parent, index, isOneOf)
               \o (IF hasList(h, Get(rule, "rules"))
                   THEN findLoaderRule(h, rule.rules.ref, match, g, rule, FALSE)
                   ELSE <<>>)
               \o (IF hasList(h, Get(rule, "oneOf"))
                   THEN findLoaderRule(h, rule.oneOf.ref, match, g, rule, TRUE)
                   ELSE <<>>)
               \o rest

\* The loop body for rules[index] and the rest of the loop.
findLoaderRuleFrom(h, rules, index, match, g, parent, isOneOf) ==
  IF index >= Len(h[rules]) THEN <<>>
  ELSE LET rule == h[rules][index + 1]
           rest == findLoaderRuleFrom(h, rules, index + 1, match, g, parent, isOneOf)
       IN IF isFalsy(rule) THEN rest
          ELSE IF gateSkips(h, rule, g, parent) THEN rest
          ELSE scanFields(h, rules, match, rule, parent, index, isOneOf)
               \o (IF hasList(h, Get(rule, "oneOf"))
                   THEN findLoaderRule(h, rule.oneOf.ref, match, g, rule, TRUE)
                   ELSE <<>>)
               \o (IF hasList(h, Get(rule, "rules"))
                   THEN findLoaderRule(h, rule.rules.ref, match, g, rule, FALSE)
                   ELSE <<>>)
               \o rest

(***************************************************************************)
(* findLoader                                                              *)
(***************************************************************************)
\* config?.module?.rules
configRules(c) == Get(c.module, "rules")

validMatch(match) == match.kind # "invalid"

\* findLoader(config, match, parentMatcher): the records, or the error thrown.
findLoader(h, c, match, g) ==
  IF ~isArray(configRules(c)) THEN [matched |-> <<>>, err |-> ""]
  ELSE IF ~validMatch(match) THEN [matched |-> <<>>, err |-> UsageError]
  ELSE [matched |-> findLoaderRule(h, configRules(c).ref, match, g, NoParent, FALSE),
        err |-> ""]

(***************************************************************************)
(* getNewRule, addNewLoader                                                *)
(***************************************************************************)
\* The entry a function newRule produces for a site.
runFactory(isUseItem, isOneOf) ==
  IF isUseItem THEN S(Bare("extra-loader"))
  ELSE Rule(IF isOneOf THEN 902 ELSE 901, S(Bare("extra-loader")),
            Undef, Undef, Undef, Undef, Undef)

\* getNewRule: the entry for the site, or the error thrown.
getNewRule(newRule, isUseItem, isOneOf) ==
  LET rule == IF newRule.t = "function" THEN runFactory(isUseItem, isOneOf)
              ELSE newRule
      type == typeOf(rule)
      bad ==
        IF isUseItem
        THEN \/ type \notin {"string", "object", "function"}
             \/ type = "object" /\ typeOf(Get(rule, "loader")) # "string"
        ELSE isFalsy(rule) \/ type # "object"
  IN [err |-> IF bad THEN UsageError ELSE "", rule |-> rule]

\* The mutant splices with a delete count of one.
spliceDeletingOne(seq, start, items) ==
  LET len == Len(seq)
      rel == toInteger(start)
      at == IF rel < 0 THEN (IF len + rel < 0 THEN 0 ELSE len + rel)
            ELSE (IF rel > len THEN len ELSE rel)
  IN SubSeq(seq, 1, at) \o items \o SubSeq(seq, at + 2, len)

\* Array.prototype.splice(start, 0, ...items) on a sequence.
splice(seq, start, items) ==
  LET len == Len(seq)
      rel == toInteger(start)
      at == IF rel < 0 THEN (IF len + rel < 0 THEN 0 ELSE len + rel)
            ELSE (IF rel > len THEN len ELSE rel)
  IN SubSeq(seq, 1, at) \o items \o SubSeq(seq, at + 1, len)

\* Lines 283-285: an array entry stands for its elements.
entryItems(rule) == IF isArray(rule) THEN rule.items ELSE <<rule>>

\* addNewLoader: the heap after the splice, or the error of getNewRule.
addNewLoader(h, newRule, rules, pos, isUseItem, isOneOf) ==
  LET new == getNewRule(newRule, isUseItem, isOneOf)
  IN IF new.err # "" THEN [heap |-> h, err |-> new.err]
     ELSE [heap |-> [h EXCEPT ![rules] = splice(@, pos, entryItems(new.rule))],
           err |-> ""]

(***************************************************************************)
(* addLoader                                                               *)
(***************************************************************************)
\* What happened at one insertion site: the position asked for and its fate.
Site(siblings, index, p, spliced) ==
  [siblings |-> siblings, index |-> index, length |-> p.hi, pos |-> p.pos,
   err |-> p.err, lo |-> p.lo, hi |-> p.hi, spliced |-> spliced]

\* One site (lines 129-132 and 140-143): position, validation, splice.
atSite(h, newRule, position, siblings, index, isUseItem, isOneOf) ==
  LET added(p, a) ==
        [heap |-> a.heap, err |-> a.err,
         site |-> Site(siblings, index, p, a.err = "")]
      at(p) ==
        IF p.err # ""
          THEN [heap |-> h, err |-> p.err, site |-> Site(siblings, index, p, FALSE)]
        ELSE IF isMinusOne(p.pos)
          THEN [heap |-> h, err |-> "", site |-> Site(siblings, index, p, FALSE)]
        ELSE added(p, addNewLoader(h, newRule, siblings, p.pos, isUseItem, isOneOf))
  IN at(getPosition(position, index, Len(h[siblings]), isUseItem, isOneOf))

\* The loop of lines 128-133 from record i on; an error ends it where it is.
RECURSIVE addAtMatched(_, _, _, _, _, _)
addAtMatched(h, matched, i, newRule, position, sites) ==
  IF i > Len(matched) THEN [heap |-> h, err |-> "", sites |-> sites]
  ELSE LET m == matched[i]
           then(r) ==
             IF r.err # ""
             THEN [heap |-> r.heap, err |-> r.err, sites |-> Append(sites, r.site)]
             ELSE addAtMatched(r.heap, matched, i + 1, newRule, position,
                               Append(sites, r.site))
       IN then(atSite(h, newRule, position, m.siblings, m.index,
                      m.isUseItem, m.isOneOf))

TopRules == <<"rules", 0>>
Orphan == <<"orphan", 0>>

\* Lines 135-139: the module and the rule list the fallback inserts into.
\*   const { module = { rules: [] } } = config
\*   const { rules = [] } = module
\*   if (!config.module) config.module = module
fallbackTarget(h, c) ==
  LET rules == configRules(c)
  IN IF c.module.t = "undefined"
     THEN [config |-> [module |-> [t |-> "object", rules |-> ArrRef(TopRules)]],
           heap |-> h @@ (TopRules :> <<>>), rules |-> TopRules]
     ELSE IF rules.t = "undefined"
     THEN [config |-> c, heap |-> (Orphan :> <<>>) @@ h, rules |-> Orphan]
     ELSE [config |-> c, heap |-> h, rules |-> rules.ref]

\* The mutant undoes every change of the call when an error is raised.
addLoaderUndoing(h, c, match, newRule, position) ==
  LET undo(r) ==
        IF r.err # "" THEN [r EXCEPT !.heap = h, !.config = c] ELSE r
      fallback(t, r) ==
        [heap |-> r.heap, config |-> t.config, matched |-> <<>>,
         err |-> r.err, sites |-> <<r.site>>]
      atTarget(t) ==
        fallback(t, atSite(t.heap, newRule, position, t.rules, -1, FALSE, FALSE))
      with(found) ==
        IF found.err # ""
          THEN [heap |-> h, config |-> c, matched |-> <<>>, err |-> found.err,
                sites |-> <<>>]
        ELSE IF Len(found.matched) > 0
          THEN undo(addAtMatched(h, found.matched, 1, newRule, position, <<>>)
                    @@ [config |-> c, matched |-> found.matched])
        ELSE undo(atTarget(fallbackTarget(h, c)))
  IN with(findLoader(h, c, match, [kind |-> "null"]))

\* addLoader(config, matcher, newRule, position)
addLoader(h, c, match, newRule, position) ==
  LET fallback(t, r) ==
        [heap |-> r.heap, config |-> t.config, matched |-> <<>>,
         err |-> r.err, sites |-> <<r.site>>]
      atTarget(t) ==
        fallback(t, atSite(t.heap, newRule, position, t.rules, -1, FALSE, FALSE))
      with(found) ==
        IF found.err # ""
          THEN [heap |-> h, config |-> c, matched |-> <<>>, err |-> found.err,
                sites |-> <<>>]
        ELSE IF Len(found.matched) > 0
          THEN addAtMatched(h, found.matched, 1, newRule, position, <<>>)
               @@ [config |-> c, matched |-> found.matched]
        ELSE atTarget(fallbackTarget(h, c))
  IN with(findLoader(h, c, match, [kind |-> "null"]))

(***************************************************************************)
(* The trees the model starts from.  A node is described without its id    *)
(* (a kind); NodeAt gives the node a kind stands for at an id, with the    *)
(* arrays it owns.  Node ids: i for the i-th top-level rule, 10 n + j for  *)
(* the j-th oneOf branch of node n, 10 n + 5 + j for its j-th sub-rule.    *)
(***************************************************************************)
sx == S(Bare("x"))
sy == S(Bare("y"))

NoArrays == [a \in {} |-> <<>>]

SeqsUpTo(set, n) == UNION {[1..k -> set] : k \in 0..n}

Leaf(n, loader, test) == Rule(n, loader, Undef, Undef, test, Undef, Undef)

UseItems == {sx, sy, UseObj(sx)}

\* Leaves of the structural trees.
SimpleKinds ==
  { [k |-> "null"],
    [k |-> "leaf", loader |-> sx, type |-> Undef, test |-> Undef],
    [k |-> "leaf", loader |-> sy, type |-> Undef, test |-> RegExp],
    [k |-> "leaf", loader |-> UseObj(sx), type |-> Undef, test |-> Undef],
    [k |-> "leaf", loader |-> Undef, type |-> sx, test |-> Undef] }

FillerKinds ==
  { [k |-> "leaf", loader |-> sx, type |-> Undef, test |-> Undef],
    [k |-> "leaf", loader |-> sy, type |-> Undef, test |-> RegExp] }

\* Loader strings of the one-rule trees that exercise identity resolution.
Specifiers ==
  { Bare("x"), Bare("y"), Bare("nope"), Bare("nope2"), pXmain, pXcase, pXother,
    pXdup, pYmain, pZmain, pZother, pApp }

IdentityKinds ==
  { [k |-> "leaf", loader |-> S(s), type |-> Undef, test |-> Undef] :
      s \in Specifiers }

\* A node that carries two invocation fields at once: loader and type.
FieldKinds ==
  { [k |-> "leaf", loader |-> sy, type |-> sx, test |-> Undef] }

\* Nodes with a `use` array, and nodes with sub-lists.
RichKinds ==
  { [k |-> "use", items |-> items] : items \in SeqsUpTo(UseItems, MaxUse) }
  \cup
  { [k |-> "parent", loader |-> l, test |-> t, sub |-> sub] :
      l \in {Undef, sx}, t \in {Undef, RegExp},
      sub \in {"oneOf", "rules", "both", "oneOfUse", "nested"} }

\* The node of kind `kind` with id n, and the arrays it owns.
NodeAt(kind, n) ==
  CASE kind.k = "null" -> [node |-> Null, arrs |-> NoArrays]
    [] kind.k = "leaf" ->
         [node |-> Rule(n, kind.loader, Undef, kind.type, kind.test, Undef, Undef),
          arrs |-> NoArrays]
    [] kind.k = "use" ->
         [node |-> Rule(n, Undef, ArrRef(<<"use", n>>), Undef, RegExp, Undef, Undef),
          arrs |-> (<<"use", n>> :> kind.items)]
    [] kind.k = "parent" ->
         LET oneOf2 == <<Leaf(10 * n + 1, sx, RegExp), Leaf(10 * n + 2, sx, RegExp)>>
             rules1 == <<Leaf(10 * n + 6, sx, Undef)>>
             useBranch ==
               Rule(10 * n + 1, Undef, ArrRef(<<"use", 10 * n + 1>>), Undef,
                    RegExp, Undef, Undef)
             inner ==
               Rule(10 * n + 1, sx, Undef, Undef, RegExp, Undef,
                    ArrRef(<<"rules", 10 * n + 1>>))
             mk(oneOf, rules) ==
               Rule(n, kind.loader, Undef, Undef, kind.test, oneOf, rules)
             OO == <<"oneOf", n>>
             RR == <<"rules", n>>
         IN CASE kind.sub = "oneOf" ->
                   [node |-> mk(ArrRef(OO), Undef), arrs |-> (OO :> oneOf2)]
              [] kind.sub = "rules" ->
                   [node |-> mk(Undef, ArrRef(RR)), arrs |-> (RR :> rules1)]
              [] kind.sub = "both" ->
                   [node |-> mk(ArrRef(OO), ArrRef(RR)),
                    arrs |-> (OO :> oneOf2) @@ (RR :> rules1)]
              [] kind.sub = "oneOfUse" ->
                   [node |-> mk(ArrRef(OO), Undef),
                    arrs |-> (OO :> <<useBranch>>)
                             @@ (<<"use", 10 * n + 1>> :> <<sx, sy>>)]
              [] kind.sub = "nested" ->
                   [node |-> mk(ArrRef(OO), Undef),
                    arrs |-> (OO :> <<inner>>)
                             @@ (<<"rules", 10 * n + 1>> :>
                                   <<Leaf(100 * n + 16, sx, Undef)>>)]

\* The kinds of the top-level rules of the initial trees, position by position.
KindSeqs ==
  UNION {[1..k -> SimpleKinds] : k \in 0..MaxRules}
  \cup [1..1 -> IdentityKinds]
  \cup [1..1 -> FieldKinds]
  \cup UNION { { [i \in 1..k |-> IF i = p THEN r ELSE f[i]] :
                   f \in [1..k -> FillerKinds], p \in 1..k, r \in RichKinds } :
               k \in 1..MaxRules }

RECURSIVE ownedArrays(_, _)
ownedArrays(ks, i) ==
  IF i > Len(ks) THEN NoArrays
  ELSE NodeAt(ks[i], i).arrs @@ ownedArrays(ks, i + 1)

\* The heap of a configuration whose module.rules holds the nodes of ks.
TreeHeap(ks) ==
  (TopRules :> [i \in 1..Len(ks) |-> NodeAt(ks[i], i).node]) @@ ownedArrays(ks, 1)

WithRules == [module |-> [t |-> "object", rules |-> ArrRef(TopRules)]]
WithoutRules == [module |-> [t |-> "object", rules |-> Undef]]
WithoutModule == [module |-> Undef]

(***************************************************************************)
(* The arguments the calls are made with.                                  *)
(***************************************************************************)
NoGate == [kind |-> "null", accept |-> {}]

\* The rule nodes of the heap that own a sub-list.
ParentIds(h) ==
  { h[a][i].id : <<a, i>> \in
      { <<a, i>> \in UNION {{a} \X DOMAIN h[a] : a \in {b \in DOMAIN h : b[1] # "use"}} :
          /\ h[a][i].t = "object"
          /\ isArray(Get(h[a][i], "oneOf")) \/ isArray(Get(h[a][i], "rules")) } }

Gates(h) ==
  {NoGate} \cup {[kind |-> "function", accept |-> A] : A \in SUBSET ParentIds(h)}

StringMatch(s) == [kind |-> "string", s |-> s]

\* Identifiers are tried in full against the one-rule trees, "x" elsewhere.
MatchInputs(h, c) ==
  { StringMatch(Bare("x")), [kind |-> "all", s |-> EmptyStr],
    [kind |-> "invalid", s |-> EmptyStr] }
  \cup
  IF isArray(configRules(c)) /\ Len(h[TopRules]) = 1
  THEN {StringMatch(s) : s \in Specifiers}
       \cup {[kind |-> "named", s |-> Bare("x")],
             [kind |-> "useItems", s |-> Bare("x")]}
  ELSE {}

NewRuleObject == Rule(900, S(Bare("new-loader")), Undef, Undef, Undef, Undef, Undef)
NewUseString == S(Bare("new-loader"))

NewRules ==
  { NewRuleObject, NewUseString, UseObj(S(Bare("new-loader"))), Fn, Number,
    ArrLit(<<NewRuleObject, Rule(903, Undef, Undef, Undef, Undef, Undef, Undef)>>),
    ArrLit(<<NewUseString, S(Bare("other-loader"))>>) }

Handler(kind) == [kind |-> kind, value |-> NaN]

ConstHandler(v) == [kind |-> "const", value |-> v]

\* 2.5, 1e-7, 0.5, -1e-7, 15e-8
Fractions == {Num(25, -1), Num(1, -7), Num(5, -1), Num(-1, -7), Num(15, -8)}

Positions ==
  {Handler("next"), Handler("length"), Handler("rulesOnly"), ConstHandler(NaN)}
  \cup {ConstHandler(IntNum(n)) : n \in {-2, -1, 0, 1, 2, 3, 99}}
  \cup {ConstHandler(f) : f \in Fractions}

\* addLoader is tried with every entry at two handlers and with every handler
\* for the factory entry.
AddInputs ==
  (NewRules \X {Handler("next"), Handler("length")}) \cup ({Fn} \X Positions)

(***************************************************************************)
(* The state machine: a configuration, then one call on it.                *)
(***************************************************************************)
NoCall ==
  [op |-> "none", match |-> [kind |-> "invalid", s |-> EmptyStr], gate |-> NoGate,
   newRule |-> Undef, position |-> Handler("none")]

Init ==
  /\ \E ks \in KindSeqs :
       \/ heap = TreeHeap(ks) /\ config = WithRules
       \/ ks = <<>> /\ heap = NoArrays /\ config \in {WithoutRules, WithoutModule}
  /\ call = NoCall
  /\ ret = [matched |-> <<>>, err |-> "", sites |-> <<>>]
  /\ pre = [heap |-> heap, config |-> config]

FindLoader(match, g) ==
  /\ call.op = "none"
  /\ call' = [NoCall EXCEPT !.op = "findLoader", !.match = match, !.gate = g]
  /\ \E r \in {findLoader(heap, config, match, g)} :
       ret' = [matched |-> r.matched, err |-> r.err, sites |-> <<>>]
  /\ UNCHANGED <<heap, config, pre>>

Add(op, match, newRule, position) ==
  /\ call.op = "none"
  /\ call' = [NoCall EXCEPT !.op = op, !.match = match, !.newRule = newRule,
                            !.position = position]
  /\ \E r \in {addLoader(heap, config, match, newRule, position)} :
       /\ heap' = r.heap
       /\ config' = r.config
       /\ ret' = [matched |-> r.matched, err |-> r.err, sites |-> r.sites]
  /\ UNCHANGED pre

AddLoader(match, newRule, position) == Add("addLoader", match, newRule, position)

\* addLoaderBefore
AddLoaderBefore(match, newRule) ==
  Add("addLoaderBefore", match, newRule, Handler("before"))

\* addLoaderAfter
AddLoaderAfter(match, newRule) ==
  Add("addLoaderAfter", match, newRule, Handler("after"))

Next ==
  \/ \E m \in MatchInputs(heap, config), g \in Gates(heap) : FindLoader(m, g)
  \/ \E m \in MatchInputs(heap, config), a \in AddInputs : AddLoader(m, a[1], a[2])
  \/ \E m \in MatchInputs(heap, config), n \in NewRules : AddLoaderBefore(m, n)
  \/ \E m \in MatchInputs(heap, config), n \in NewRules : AddLoaderAfter(m, n)

Spec == Init /\ [][Next]_vars

(***************************************************************************)
(* Vocabulary of the properties.                                           *)
(***************************************************************************)
AddOps == {"addLoader", "addLoaderBefore", "addLoaderAfter"}

Range(seq) == {seq[i] : i \in DOMAIN seq}

\* The entry addLoader materialises for the site of a record.
EntryFor(rec) == getNewRule(call.newRule, rec.isUseItem, rec.isOneOf).rule

\* Every site of the call received one entry that is not an array.
SingleEntries ==
  \A k \in DOMAIN ret.matched : ~isArray(EntryFor(ret.matched[k]))

\* Where the element that stood at index `index` before the call stands now:
\* the new entry X differs from every element of the initial trees, so it is
\* the (index + 1)-th element of the collection that is not X.
PlaceNow(coll, X, index) ==
  CHOOSE p \in DOMAIN coll :
    /\ coll[p] # X
    /\ Cardinality({q \in 1..p : coll[q] # X}) = index + 1

\* An integer in -1 .. length.
InRange(pos, length) ==
  isInteger(pos) /\ ~numLess(pos, -1) /\ ~numGreater(pos, length)

(***************************************************************************)
(* C1.  After addLoaderAfter with a single (non-array) entry X, every      *)
(* entry that findLoader matched before the call is immediately followed   *)
(* by X in its sibling collection, also when several matches lie in one    *)
(* collection.                                                             *)
(***************************************************************************)
C1_AfterEveryMatch ==
  (call.op = "addLoaderAfter" /\ ret.err = "" /\ SingleEntries) =>
    \A k \in DOMAIN ret.matched :
      LET rec == ret.matched[k]
          coll == heap[rec.siblings]
          p == PlaceNow(coll, EntryFor(rec), rec.index)
      IN p + 1 <= Len(coll) /\ coll[p + 1] = EntryFor(rec)

(***************************************************************************)
(* C2.  After addLoaderBefore with a single (non-array) entry X, every     *)
(* entry that findLoader matched before the call is immediately preceded   *)
(* by X in its sibling collection, also when several matches lie in one    *)
(* collection.                                                             *)
(***************************************************************************)
C2_BeforeEveryMatch ==
  (call.op = "addLoaderBefore" /\ ret.err = "" /\ SingleEntries) =>
    \A k \in DOMAIN ret.matched :
      LET rec == ret.matched[k]
          coll == heap[rec.siblings]
          p == PlaceNow(coll, EntryFor(rec), rec.index)
      IN p - 1 >= 1 /\ coll[p - 1] = EntryFor(rec)

(***************************************************************************)
(* C3.  When findLoader returns no record and the position function        *)
(* returns p # -1 for (-1, length, false, false), config.module.rules      *)
(* holds the new entry at index p after addLoader; addLoaderBefore on a    *)
(* configuration without rules leaves config.module.rules = [X].           *)
(***************************************************************************)
C3_FallbackInsertsAtTop ==
  ( /\ call.op \in AddOps
    /\ ret.err = ""
    /\ Len(ret.matched) = 0
    /\ Len(ret.sites) = 1
    /\ InRange(ret.sites[1].pos, ret.sites[1].length)
    /\ ~isMinusOne(ret.sites[1].pos) ) =>
    LET items == entryItems(getNewRule(call.newRule, FALSE, FALSE).rule)
        p == toInteger(ret.sites[1].pos)
        top == configRules(config)
    IN /\ isArray(top)
       /\ Len(heap[top.ref]) >= p + Len(items)
       /\ SubSeq(heap[top.ref], p + 1, p + Len(items)) = items
       /\ (call.op = "addLoaderBefore" /\ ~isArray(configRules(pre.config)))
            => heap[top.ref] = items

(***************************************************************************)
(* C4.  At every insertion site the position p returned by the position    *)
(* function is accepted exactly when it is an integer in -1 .. L, L the     *)
(* length of the sibling collection; any other value raises the usage      *)
(* error naming -1 .. L and nothing is spliced at the site.                *)
(***************************************************************************)
C4_PositionAcceptedIffInRange ==
  call.op \in AddOps =>
    \A k \in DOMAIN ret.sites :
      LET site == ret.sites[k]
      IN /\ (site.err = "") <=> InRange(site.pos, site.length)
         /\ site.err # "" =>
              /\ site.err = UsageError
              /\ ret.err = UsageError
              /\ site.lo = -1 /\ site.hi = site.length
              /\ ~site.spliced

(***************************************************************************)
(* C5.  findLoader and addLoader called with a match specification that    *)
(* is neither a string nor a function raise a usage error on every tree,   *)
(* also one without a rule list, and addLoader then inserts nothing.       *)
(***************************************************************************)
C5_InvalidMatchThrows ==
  (call.op # "none" /\ call.match.kind = "invalid") =>
    /\ ret.err = UsageError
    /\ Len(ret.matched) = 0
    /\ heap = pre.heap
    /\ config = pre.config

(***************************************************************************)
(* The rule nodes of a tree, each with the list it stands in.  The arrays  *)
(* of an initial tree are named after the node that owns them.             *)
(***************************************************************************)
RuleLists(h) == {a \in DOMAIN h : a[1] \in {"rules", "oneOf"}}

NodeInfos(h) ==
  { [node |-> h[x[1]][x[2]], list |-> x[1], index |-> x[2] - 1] :
      x \in { y \in UNION {{a} \X DOMAIN h[a] : a \in RuleLists(h)} :
                "id" \in DOMAIN h[y[1]][y[2]] } }

RECURSIVE DescendantIds(_, _)
DescendantIds(h, id) ==
  LET kids == { i.node.id : i \in {j \in NodeInfos(h) : j.list[2] = id} }
  IN kids \cup UNION {DescendantIds(h, k) : k \in kids}

\* The gate is consulted for the node and answers no.
Rejected(h, g, node) ==
  /\ g.kind = "function"
  /\ \/ isArray(node.oneOf) /\ h[node.oneOf.ref] # <<>>
     \/ isArray(node.rules) /\ h[node.rules.ref] # <<>>
  /\ hasRuleConditions(node)
  /\ node.id \notin g.accept

\* The ids of the nodes that stand above the node of an info.
RECURSIVE AncestorIds(_, _)
AncestorIds(h, info) ==
  IF info.list[2] = 0 THEN {}
  ELSE LET up == CHOOSE i \in NodeInfos(h) : i.node.id = info.list[2]
       IN {up.node.id} \cup AncestorIds(h, up)

ParentNode(h, info) ==
  IF info.list[2] = 0 THEN NoParent
  ELSE (CHOOSE i \in NodeInfos(h) : i.node.id = info.list[2]).node

\* What findLoader returns for the same tree and matcher without a gate.
Ungated == findLoader(heap, config, call.match, NoGate).matched

(***************************************************************************)
(* C6.  With a parent gate, a rule node that has a non-empty rules or      *)
(* oneOf list, carries a condition and is rejected by the gate contributes *)
(* no record: none owned by the node, none owned by a descendant.          *)
(***************************************************************************)
C6_RejectedSubtreeSkipped ==
  call.op = "findLoader" =>
    \A i \in NodeInfos(heap) :
      Rejected(heap, call.gate, i.node) =>
        \A k \in DOMAIN ret.matched :
          ret.matched[k].rule \notin {i.node.id} \cup DescendantIds(heap, i.node.id)

\* A rejected node whose subtree holds matches when no gate is given.
C6_Witness ==
  /\ call.op = "findLoader"
  /\ ret.err = ""
  /\ \E i \in NodeInfos(heap) :
       /\ Rejected(heap, call.gate, i.node)
       /\ \E k \in DOMAIN Ungated :
            Ungated[k].rule \in DescendantIds(heap, i.node.id)
       /\ \E k \in DOMAIN Ungated : Ungated[k].rule = i.node.id

(***************************************************************************)
(* C7 as stated.  A node the gate rejects still has its own invocation     *)
(* fields scanned: the records of its loader, use, loaders and type        *)
(* fields are returned, only its sub-lists are left out.                   *)
(***************************************************************************)
C7_RejectedNodeStillScanned ==
  (call.op = "findLoader" /\ validMatch(call.match)) =>
    \A i \in NodeInfos(heap) :
      ( /\ Rejected(heap, call.gate, i.node)
        /\ \A a \in AncestorIds(heap, i) :
             \A j \in NodeInfos(heap) :
               j.node.id = a => ~Rejected(heap, call.gate, j.node) ) =>
        \A k \in DOMAIN Ungated :
          Ungated[k].rule = i.node.id => Ungated[k] \in Range(ret.matched)

(***************************************************************************)
(* C7 amended.  A node the gate rejects is skipped whole: the scan of its  *)
(* own invocation fields is suppressed together with the recursion, so a   *)
(* matching invocation the rejected node itself carries is not returned.   *)
(***************************************************************************)
C7_RejectedNodeNotScanned ==
  (call.op = "findLoader" /\ validMatch(call.match)) =>
    \A i \in NodeInfos(heap) :
      Rejected(heap, call.gate, i.node) =>
        LET own == scanFields(heap, i.list, call.match, i.node,
                              ParentNode(heap, i), i.index, i.list[1] = "oneOf")
        IN \A k \in DOMAIN own : own[k] \notin Range(ret.matched)

\* A rejected node that itself invokes a matching loader.
C7_Witness ==
  /\ call.op = "findLoader"
  /\ ret.err = ""
  /\ call.match.kind = "string"
  /\ \E i \in NodeInfos(heap) :
       /\ Rejected(heap, call.gate, i.node)
       /\ i.node.loader = sx
       /\ \E k \in DOMAIN Ungated : Ungated[k].rule = i.node.id
       /\ \A k \in DOMAIN ret.matched : ret.matched[k].rule # i.node.id

(***************************************************************************)
(* C8.  The scenario: a rule node whose oneOf list has two branches, each  *)
(* invoking "x" through its loader field, searched for "x".                *)
(***************************************************************************)
TwoBranchNodes(h) ==
  { i \in NodeInfos(h) :
      /\ isArray(i.node.oneOf)
      /\ Len(h[i.node.oneOf.ref]) = 2
      /\ \A b \in 1..2 : Get(h[i.node.oneOf.ref][b], "loader") = sx }

\* The records of the call that the branches of the node own.
BranchRecords(h, node) ==
  LET ofBranch(r) == r.rule \in {h[node.oneOf.ref][b].id : b \in 1..2}
  IN SelectSeq(ret.matched, ofBranch)

SearchForX == call.match = StringMatch(Bare("x"))

(***************************************************************************)
(* C8 as stated.  findLoader(tree, x) returns exactly two records for the  *)
(* two branches, one per branch, each with a 1-element sibling collection  *)
(* of its own that the other branch's record does not share.               *)
(***************************************************************************)
C8_BranchesOwnCollections ==
  (call.op = "findLoader" /\ SearchForX) =>
    \A i \in TwoBranchNodes(heap) :
      ~Rejected(heap, call.gate, i.node) =>
        LET recs == BranchRecords(heap, i.node)
        IN /\ Len(recs) = 2
           /\ recs[1].rule # recs[2].rule
           /\ Len(heap[recs[1].siblings]) = 1
           /\ Len(heap[recs[2].siblings]) = 1
           /\ recs[1].siblings # recs[2].siblings

(***************************************************************************)
(* C8 amended.  findLoader(tree, x) returns exactly two records for the    *)
(* two branches, one per branch, with isOneOf = true; both records have    *)
(* the same sibling collection, the node's oneOf list itself (2 elements,  *)
(* indices 0 and 1), so the insertions addLoader makes for the two         *)
(* records go into that one list.                                          *)
(***************************************************************************)
C8_BranchesShareOneOfList ==
  /\ (call.op = "findLoader" /\ SearchForX) =>
       \A i \in TwoBranchNodes(heap) :
         ~Rejected(heap, call.gate, i.node) =>
           LET recs == BranchRecords(heap, i.node)
               list == i.node.oneOf.ref
           IN /\ Len(recs) = 2
              /\ \A b \in 1..2 :
                   /\ recs[b].rule = heap[list][b].id
                   /\ recs[b].siblings = list
                   /\ recs[b].index = b - 1
                   /\ recs[b].isOneOf /\ ~recs[b].isUseItem
                   /\ recs[b].parent = i.node.id
              /\ Len(heap[list]) = 2
  /\ ( /\ call.op \in AddOps /\ SearchForX /\ ret.err = ""
       /\ \A k \in DOMAIN ret.sites : ret.sites[k].spliced ) =>
       \A i \in TwoBranchNodes(pre.heap) :
         Len(heap[i.node.oneOf.ref]) >= Len(pre.heap[i.node.oneOf.ref]) + 2

\* The two branch records of such a node were returned, sharing the list.
C8_Witness ==
  /\ call.op = "findLoader" /\ SearchForX /\ ret.err = ""
  /\ \E i \in TwoBranchNodes(heap) :
       /\ Len(BranchRecords(heap, i.node)) = 2
       /\ BranchRecords(heap, i.node)[1].siblings
            = BranchRecords(heap, i.node)[2].siblings

(***************************************************************************)
(* C9 as stated.  With a string identifier, a record is returned only if   *)
(* the candidate's resolved path R and the identifier's resolved path C    *)
(* have equal normalized text, or have the same final component and        *)
(* enclosing packages that declare the same non-empty name.                *)
(***************************************************************************)
PathOf(r) == resolveLoaderPath(r.loader.s)

SamePackageName(R, C) ==
  ~Falsy(getPackageName(R)) /\ getPackageName(R) = getPackageName(C)

C9_OnlySameStage ==
  (call.op = "findLoader" /\ call.match.kind = "string") =>
    \A k \in DOMAIN ret.matched :
      LET r == ret.matched[k]
          C == resolveLoaderPath(call.match.s)
      IN /\ r.loader.t = "string"
         /\ \/ NormalizePath(PathOf(r)) = NormalizePath(C)
            \/ basename(PathOf(r)) = basename(C) /\ SamePackageName(PathOf(r), C)

(***************************************************************************)
(* C9 amended.  With a string identifier, a record is returned only if     *)
(* the candidate's loader is a string whose resolved path R and the        *)
(* identifier's resolved path C have equal normalized text, or whose       *)
(* enclosing packages declare the same non-empty name, whatever the final  *)
(* path components: two files of one package are the same stage.           *)
(***************************************************************************)
C9_OnlySamePathOrPackage ==
  (call.op = "findLoader" /\ call.match.kind = "string") =>
    \A k \in DOMAIN ret.matched :
      LET r == ret.matched[k]
          C == resolveLoaderPath(call.match.s)
      IN /\ r.loader.t = "string"
         /\ \/ NormalizePath(PathOf(r)) = NormalizePath(C)
            \/ SamePackageName(PathOf(r), C)

\* A record returned for a path that differs from the identifier's in text
\* and in final component.
C9_Witness ==
  /\ call.op = "findLoader" /\ call.match.kind = "string"
  /\ \E k \in DOMAIN ret.matched :
       LET R == PathOf(ret.matched[k])
           C == resolveLoaderPath(call.match.s)
       IN /\ NormalizePath(R) # NormalizePath(C)
          /\ basename(R) # basename(C)

(***************************************************************************)
(* C10.  An array entry [e1..ek] is inserted element by element at the     *)
(* validated position, at rule-node sites and at use-array sites alike,    *)
(* and the collection grows by exactly k.                                  *)
(***************************************************************************)
C10_ArrayEntryBulkInsert ==
  (call.op \in AddOps /\ isArray(call.newRule)) =>
    \A k \in DOMAIN ret.sites :
      LET site == ret.sites[k]
          items == call.newRule.items
          was == IF site.siblings \in DOMAIN pre.heap
                 THEN pre.heap[site.siblings] ELSE <<>>
          p == toInteger(site.pos)
      IN (site.err = "" /\ ~isMinusOne(site.pos)) =>
           /\ site.spliced
           /\ (Len(ret.sites) = 1 /\ isInteger(site.pos)) =>
                /\ heap[site.siblings]
                     = SubSeq(was, 1, p) \o items \o SubSeq(was, p + 1, Len(was))
                /\ Len(heap[site.siblings]) = Len(was) + Len(items)

(***************************************************************************)
(* Traversal order.  PreOrder lists the ids of the rule nodes of a tree,   *)
(* a node before the nodes of its sub-list `first`, those before the nodes *)
(* of its sub-list `second`, and all of them before the node's next        *)
(* sibling.                                                                *)
(***************************************************************************)
RECURSIVE PreOrder(_, _, _, _, _)
PreOrder(h, list, i, first, second) ==
  IF i > Len(h[list]) THEN <<>>
  ELSE LET node == h[list][i]
           below(f) ==
             IF isArray(Get(node, f)) THEN PreOrder(h, Get(node, f).ref, 1, first, second)
             ELSE <<>>
           rest == PreOrder(h, list, i + 1, first, second)
       IN IF node.t # "object" THEN rest
          ELSE <<node.id>> \o below(first) \o below(second) \o rest

RankIn(seq, id) == CHOOSE p \in DOMAIN seq : seq[p] = id

\* The invocation field a record comes from, 1..4 in the order loader, use,
\* loaders, type.  In the trees of the model an array is held by `use` only,
\* and a single identifier is reported without loader exactly when it is the
\* node's type.
FieldOf(rec) ==
  IF rec.isUseItem THEN 2 ELSE IF rec.loader.t = "undefined" THEN 4 ELSE 1

\* The records of the call stand in the order of PreOrder; those of one node
\* in field order, those of one array by index.
RecordsFollow(first, second) ==
  LET order == PreOrder(pre.heap, TopRules, 1, first, second)
  IN \A k, l \in DOMAIN ret.matched :
       k < l =>
         LET a == ret.matched[k]
             b == ret.matched[l]
             ra == RankIn(order, a.rule)
             rb == RankIn(order, b.rule)
         IN \/ ra < rb
            \/ /\ ra = rb
               /\ \/ FieldOf(a) < FieldOf(b)
                  \/ FieldOf(a) = FieldOf(b) /\ a.index < b.index

(***************************************************************************)
(* C11 as stated.  The records of findLoader are in depth-first pre-order: *)
(* a node's own fields, then the records of its rules list, then those of  *)
(* its oneOf list, then the later siblings.                                *)
(***************************************************************************)
C11_RulesBeforeOneOf ==
  (call.op # "none" /\ ret.err = "" /\ Len(ret.matched) > 0) =>
    RecordsFollow("rules", "oneOf")

(***************************************************************************)
(* C11 amended.  The records of findLoader are in depth-first pre-order:   *)
(* a node's own fields in field order, then the records of its oneOf list, *)
(* then those of its rules list, then the later siblings.                  *)
(***************************************************************************)
C11_OneOfBeforeRules ==
  (call.op # "none" /\ ret.err = "" /\ Len(ret.matched) > 0) =>
    RecordsFollow("oneOf", "rules")

\* A node with records of its own, of its oneOf list and of its rules list,
\* followed by a sibling with a record; and a node with two fields matched.
C11_Witness ==
  /\ call.op = "findLoader"
  /\ \E i \in NodeInfos(heap) :
       LET owners == {ret.matched[k].rule : k \in DOMAIN ret.matched}
           kidsOf(a) == {j.node.id : j \in {n \in NodeInfos(heap) : n.list = a}}
       IN /\ i.list = TopRules
          /\ isArray(i.node.oneOf) /\ isArray(i.node.rules)
          /\ i.node.id \in owners
          /\ kidsOf(i.node.oneOf.ref) \cap owners # {}
          /\ kidsOf(i.node.rules.ref) \cap owners # {}
          /\ \E j \in NodeInfos(heap) :
               j.list = TopRules /\ j.index > i.index /\ j.node.id \in owners

\* One node reported for its loader field and for its type field.
C11_FieldsWitness ==
  /\ call.op = "findLoader"
  /\ \E k, l \in DOMAIN ret.matched :
       /\ k < l
       /\ ret.matched[k].rule = ret.matched[l].rule
       /\ FieldOf(ret.matched[k]) = 1 /\ FieldOf(ret.matched[l]) = 4

\* The node that owns a record stands in the oneOf list of some node.
InOneOf(rec) ==
  \E i \in NodeInfos(pre.heap) : i.node.id = rec.rule /\ i.list[1] = "oneOf"

(***************************************************************************)
(* C12 as stated.  A record's isOneOf flag is true exactly when its owning *)
(* node is an element of a oneOf list, whatever the shape of the matched   *)
(* invocation, elements of a use array included.                           *)
(***************************************************************************)
C12_FlagForEveryShape ==
  (call.op # "none" /\ ret.err = "") =>
    \A k \in DOMAIN ret.matched :
      ret.matched[k].isOneOf <=> InOneOf(ret.matched[k])

(***************************************************************************)
(* C12 amended.  A record's isOneOf flag is true exactly when the record   *)
(* is not an element of a use array and its owning node is an element of   *)
(* a oneOf list; for the elements of a use array the flag is always false. *)
(***************************************************************************)
C12_FlagForNodeSlotsOnly ==
  (call.op # "none" /\ ret.err = "") =>
    \A k \in DOMAIN ret.matched :
      ret.matched[k].isOneOf
        <=> (~ret.matched[k].isUseItem /\ InOneOf(ret.matched[k]))

\* A matched element of the use array of a oneOf branch.
C12_Witness ==
  /\ call.op \in AddOps
  /\ ret.err = ""
  /\ \E k \in DOMAIN ret.matched :
       /\ ret.matched[k].isUseItem
       /\ InOneOf(ret.matched[k])
       /\ ~ret.matched[k].isOneOf

\* The elements of s stand in t in the same relative order.
RECURSIVE IsSubseq(_, _)
IsSubseq(s, t) ==
  IF s = <<>> THEN TRUE
  ELSE IF t = <<>> THEN FALSE
  ELSE IF Head(s) = Head(t) THEN IsSubseq(Tail(s), Tail(t))
  ELSE IsSubseq(s, Tail(t))

\* The collections of the sites whose position was not -1.
Touched ==
  { ret.sites[k].siblings : k \in {j \in DOMAIN ret.sites : ~isMinusOne(ret.sites[j].pos)} }

(***************************************************************************)
(* C13.  addLoader changes the tree only by inserting: every array of the  *)
(* tree is still the same array, holds its former elements in their former *)
(* order, and is unchanged unless it is the sibling collection of a site   *)
(* whose position is not -1.  The root is unchanged, but for a module      *)
(* created by the zero-match fallback around the new top-level rule list.  *)
(***************************************************************************)
C13_OnlyInsertions ==
  call.op \in AddOps =>
    /\ \A a \in DOMAIN pre.heap :
         /\ a \in DOMAIN heap
         /\ IsSubseq(pre.heap[a], heap[a])
         /\ a \notin Touched => heap[a] = pre.heap[a]
    /\ \/ config = pre.config
       \/ /\ pre.config.module.t = "undefined"
          /\ Len(ret.matched) = 0
          /\ config = WithRules
          /\ TopRules \notin DOMAIN pre.heap

\* Two insertions into one collection next to a site that was skipped with
\* position -1 in another collection.
C13_Witness ==
  /\ call.op \in AddOps
  /\ ret.err = ""
  /\ \E i, j, k \in DOMAIN ret.sites :
       /\ i # j
       /\ ret.sites[i].spliced /\ ret.sites[j].spliced
       /\ ret.sites[i].siblings = ret.sites[j].siblings
       /\ isMinusOne(ret.sites[k].pos)
       /\ ret.sites[k].siblings \notin Touched
       /\ pre.heap[ret.sites[k].siblings] # <<>>
  /\ \E a \in Touched : Len(heap[a]) = Len(pre.heap[a]) + 2

(***************************************************************************)
(* C14.  With a string identifier findLoader returns a record only when    *)
(* the candidate's loader resolves to a non-empty absolute path; when the  *)
(* requested identifier does not resolve the result is empty, so two       *)
(* different specifiers that both fail to resolve are not the same stage.  *)
(***************************************************************************)
C14_UnresolvedNeverMatches ==
  (call.op # "none" /\ call.match.kind = "string" /\ ret.err = "") =>
    /\ \A k \in DOMAIN ret.matched :
         /\ ret.matched[k].loader.t = "string"
         /\ ~Falsy(PathOf(ret.matched[k]))
         /\ isAbsolute(PathOf(ret.matched[k]))
    /\ Falsy(resolveLoaderPath(call.match.s)) => ret.matched = <<>>

\* The number of elements the first n sites of the call spliced into array a.
RECURSIVE InsertedInto(_, _)
InsertedInto(a, n) ==
  IF n = 0 THEN 0
  ELSE InsertedInto(a, n - 1)
       + IF ret.sites[n].siblings = a /\ ret.sites[n].spliced
         THEN Len(entryItems(EntryFor(ret.matched[n]))) ELSE 0

(***************************************************************************)
(* C15 as stated.  When addLoader raises a usage error the tree is as it   *)
(* was before the call: no insertion of the call persists and the root's   *)
(* module field is not created or altered.                                 *)
(***************************************************************************)
C15_ErrorLeavesTreeUntouched ==
  (call.op \in AddOps /\ ret.err # "") =>
    /\ \A a \in DOMAIN pre.heap : a \in DOMAIN heap /\ heap[a] = pre.heap[a]
    /\ config = pre.config

(***************************************************************************)
(* C15 amended.  When addLoader raises a usage error at a site, nothing is *)
(* spliced at that site and no later record is processed, but what the     *)
(* call did before persists: the entries spliced for the earlier records   *)
(* stay in their collections, and a module the zero-match fallback created *)
(* stays in the root, with an empty rule list.                             *)
(***************************************************************************)
C15_ErrorKeepsEarlierInsertions ==
  (call.op \in AddOps /\ ret.err # "" /\ ret.sites # <<>>) =>
    LET n == Len(ret.sites)
    IN /\ ~ret.sites[n].spliced
       /\ \A k \in 1..(n - 1) :
            /\ ret.sites[k].err = ""
            /\ ret.sites[k].spliced \/ isMinusOne(ret.sites[k].pos)
       /\ ret.matched # <<>> =>
            /\ n <= Len(ret.matched)
            /\ config = pre.config
            /\ \A a \in DOMAIN pre.heap :
                 /\ IsSubseq(pre.heap[a], heap[a])
                 /\ Len(heap[a]) = Len(pre.heap[a]) + InsertedInto(a, n)
       /\ ret.matched = <<>> =>
            /\ \A a \in DOMAIN pre.heap : heap[a] = pre.heap[a]
            /\ IF pre.config.module.t = "undefined"
               THEN config = WithRules /\ heap[TopRules] = <<>>
               ELSE config = pre.config

\* An error at a later record after an entry was spliced for an earlier one.
C15_Witness ==
  /\ call.op \in AddOps
  /\ ret.err # ""
  /\ Len(ret.sites) >= 2
  /\ ret.sites[1].spliced
  /\ heap[ret.sites[1].siblings] # pre.heap[ret.sites[1].siblings]

====
